---- MODULE Spec2Model ----
(***************************************************************************)
(* Availability inference engine of the OpenTable extractor                *)
(* (src/unnamed/part_000): text-to-time parsers, the time-grid             *)
(* reconstruction, the visibility-window inference and the per-container   *)
(* "recorded" marks of the search page.                                    *)
(*                                                                         *)
(* Representation.                                                         *)
(*   - A text is a sequence of tokens.  A token is either a clock label    *)
(*     "h:mm AM|PM" ([kind |-> "time", h, m, ap]) or other non-empty text  *)
(*     that holds no clock label ([kind |-> "word", ...], e.g. "PM").      *)
(*     The empty string "" is the empty sequence.                          *)
(*   - A ClockTime "HH:mm:ss" is the triple <<HH, mm, ss>>; the string     *)
(*     order of zero-padded two-digit fields is the lexicographic order    *)
(*     of the triples.                                                     *)
(*   - A CalendarDate is the number of days since a reference day; null    *)
(*     is NullDate.                                                        *)
(*   - A timestamp (Date.getTime()) is counted in minutes since the        *)
(*     reference day 00:00 UTC; null and NaN are sentinels.                *)
(***************************************************************************)
EXTENDS Integers, Sequences, FiniteSets, TLC

VARIABLES
    gDate,      \* grid engine: the date argument
    gTimes,     \* grid engine: the timesArray argument
    gOut,       \* grid engine: the returned list, or the exception
    gPc,        \* grid engine: "ready" before the call, "done" after
    wBase,      \* full-availability popup: the date shown in the popup
    wSlots,     \* full-availability popup: the visible time-slots element
    wOut,       \* full-availability popup: the records pushed to results
    wPc,        \* full-availability popup: "ready" / "done"
    page,       \* search page: the snapshot the next invocation reads
    recorded,   \* search page: the "__recorded" attribute of each container
    results,    \* search page: what the last invocation returned
    pushed,     \* history: the records each container pushed in the last invocation
    prevPushed, \* history: the same for the invocation before, page unchanged
    zeroYield,  \* history: unmarked cards that were read and yielded nothing
    markSets,   \* history: setIsRecorded calls made on each container (0, 1, 2 = many)
    tracked,    \* history: prevAvailable / nextAvailable at the end of the last invocation
    last,       \* history: "invoke" right after an invocation, else "mutate"
    tz,         \* the host's local time zone
    nDate,      \* getNextDate: the date argument
    nDelta,     \* getNextDate: the deltaDays argument
    nOut,       \* getNextDate: the returned date
    nPc,        \* getNextDate: "ready" before the call, "done" after
    clockYear,  \* the host's wall clock: new Date().getFullYear()
    fName,      \* a call of a parser or helper: the function called
    fArg,       \* its arguments
    fOut,       \* its result, or the state of its loops while it runs
    fPc         \* "ready" before the call, "done" after

gridVars == <<gDate, gTimes, gOut, gPc>>
windowVars == <<wBase, wSlots, wOut, wPc>>
pageVars == <<page, recorded, results, pushed, prevPushed, zeroYield, markSets, tracked, last>>
dateVars == <<tz, nDate, nDelta, nOut, nPc>>
callVars == <<clockYear, fName, fArg, fOut, fPc>>
vars == <<gridVars, windowVars, pageVars, dateVars, callVars>>

----------------------------------------------------------------------------
(* Bounds *)

MaxLen == 3          \* longest timesArray handed to the grid engine
MaxSlots == 3        \* most <li> slots in the popup's time-slots element
MaxDate == 4         \* latest date (days after the reference day) given to getNextDate
MaxDelta == 3        \* largest deltaDays given to getNextDate
MaxDayLen == 2       \* most <li> slots in a day container of the multi-day popup

----------------------------------------------------------------------------
(* Values *)

NullDate == -1000            \* `null` where a date is expected
NullTs == -1000000           \* `null` in the timestamps array
NaN == -2000000              \* NaN / undefined in timestamp arithmetic

MinutesPerDay == 1440

BlankLabel == <<>>
Word == [kind |-> "word", h |-> 0, m |-> 0, ap |-> "PM"]
TimeToken(h, m, ap) == [kind |-> "time", h |-> h, m |-> m, ap |-> ap]

LabelHours == {11, 12}
LabelMinutes == {0, 15, 30}
TimeTokens == {TimeToken(h, m, ap) : h \in LabelHours, m \in LabelMinutes, ap \in {"AM", "PM"}}

\* one element of a timesArray: "", a clock label, or text with no clock label
Labels == {BlankLabel, <<Word>>} \cup {<<t>> : t \in TimeTokens}

GridDates == {NullDate, 0}

RECURSIVE SeqsUpTo(_, _)
SeqsUpTo(S, n) ==
    IF n = 0 THEN {<<>>}
    ELSE LET shorter == SeqsUpTo(S, n - 1)
         IN  shorter \cup {Append(s, x) : s \in {q \in shorter : Len(q) = n - 1}, x \in S}

----------------------------------------------------------------------------
(* TemporalTextParser *)

\* mutation of To24h: 12 is not treated apart
To24hNoNoon(tok) ==
    <<IF tok.ap = "PM" THEN tok.h + 12 ELSE tok.h, tok.m, 0>>

\* lines 61-70: 12-hour to 24-hour conversion of one match
To24h(tok) ==
    LET hours == IF tok.ap = "PM" /\ tok.h # 12 THEN tok.h + 12
                 ELSE IF tok.ap = "AM" /\ tok.h = 12 THEN 0
                 ELSE tok.h
    IN  <<hours, tok.m, 0>>

\* further tokens of a text: a date "Month d[, yyyy]" with the month name in
\* full or abbreviated (the month itself is not modelled: `day` counts the
\* days of the year), and a party size "n people"
NoYear == -1
DateToken(form, day, year) == [kind |-> "date", form |-> form, day |-> day, year |-> year]
PartyToken(n) == [kind |-> "party", n |-> n]

\* tokens of a text follow each other without a separator: the digit a token
\* ends with, which /\d{1,2}:/ takes for the first digit of a one-digit hour
NoDigit == -1
LastDigit(tok) ==
    IF tok.kind = "date" THEN (IF tok.year # NoYear THEN tok.year % 10 ELSE tok.day % 10)
    ELSE NoDigit

\* the match of /(\d{1,2}):(\d{2}) ([APap][Mm])/ at a clock label that
\* follows the digit `digit`
Matched(tok, digit) ==
    IF digit # NoDigit /\ tok.h < 10 THEN [tok EXCEPT !.h = 10 * digit + tok.h] ELSE tok

\* mutation of ParseTimesAfter: the times are returned last match first
RECURSIVE ParseTimesAfterReversed(_, _)
ParseTimesAfterReversed(text, digit) ==
    IF text = <<>> THEN <<>>
    ELSE IF Head(text).kind = "time"
         THEN ParseTimesAfterReversed(Tail(text), NoDigit)
                 \o <<To24h(Matched(Head(text), digit))>>
         ELSE ParseTimesAfterReversed(Tail(text), LastDigit(Head(text)))

\* lines 55-72: every match, in order of appearance
RECURSIVE ParseTimesAfter(_, _)
ParseTimesAfter(text, digit) ==
    IF text = <<>> THEN <<>>
    ELSE IF Head(text).kind = "time"
         THEN <<To24h(Matched(Head(text), digit))>> \o ParseTimesAfter(Tail(text), NoDigit)
         ELSE ParseTimesAfter(Tail(text), LastDigit(Head(text)))

\* parseTimes
parseTimes(text) == ParseTimesAfter(text, NoDigit)

\* mutation of parsePartySize: 0 people when nothing matches
NullSize == -1
parsePartySizeZero(text) ==
    IF \E i \in 1..Len(text) : text[i].kind = "party"
    THEN text[CHOOSE i \in 1..Len(text) :
                 text[i].kind = "party" /\ \A j \in 1..(i - 1) : text[j].kind # "party"].n
    ELSE 0

\* parsePartySize: the first "n person|people", or null
parsePartySize(text) ==
    IF \E i \in 1..Len(text) : text[i].kind = "party"
    THEN text[CHOOSE i \in 1..Len(text) :
                 text[i].kind = "party" /\ \A j \in 1..(i - 1) : text[j].kind # "party"].n
    ELSE NullSize

\* a null textContent
NullText == <<[kind |-> "null"]>>

\* mutation of DatePatterns: the patterns are tried last to first
DatePatternsReversed ==
    <<[form |-> "abbr", year |-> FALSE], [form |-> "abbr", year |-> TRUE],
      [form |-> "full", year |-> FALSE], [form |-> "full", year |-> TRUE]>>

\* lines 91-96
DatePatterns ==
    <<[form |-> "full", year |-> TRUE], [form |-> "full", year |-> FALSE],
      [form |-> "abbr", year |-> TRUE], [form |-> "abbr", year |-> FALSE]>>

\* text.match(pattern): the position of the leftmost match, 0 for none
PatternMatches(pattern, tok) ==
    tok.kind = "date" /\ tok.form = pattern.form /\ (pattern.year => tok.year # NoYear)

MatchPos(pattern, text) ==
    IF \E i \in 1..Len(text) : PatternMatches(pattern, text[i])
    THEN CHOOSE i \in 1..Len(text) :
            /\ PatternMatches(pattern, text[i])
            /\ \A j \in 1..(i - 1) : ~PatternMatches(pattern, text[j])
    ELSE 0

\* lines 125-138: the first pattern, in the order of the array, that matches
FirstPattern(text) ==
    IF \E k \in 1..Len(DatePatterns) : MatchPos(DatePatterns[k], text) > 0
    THEN CHOOSE k \in 1..Len(DatePatterns) :
            /\ MatchPos(DatePatterns[k], text) > 0
            /\ \A l \in 1..(k - 1) : MatchPos(DatePatterns[l], text) = 0
    ELSE 0

\* new Date().getFullYear()
ClockYears == {2025, 2026}

\* "YYYY-MM-DD" as a number of days
DaysPerYear == 365
DateValue(year, day) == year * DaysPerYear + day

\* text.replace(dateMatch[0], ""): a pattern without year that matches a
\* date written with its year leaves ", yyyy" behind
YearLeft(year) == [kind |-> "date", form |-> "none", day |-> 0, year |-> year]
RemoveMatch(text, i, pattern) ==
    SubSeq(text, 1, i - 1)
        \o (IF ~pattern.year /\ text[i].year # NoYear THEN <<YearLeft(text[i].year)>> ELSE <<>>)
        \o SubSeq(text, i + 1, Len(text))

\* parseDateAndTimes
parseDateAndTimes(text) ==
    IF text = NullText \/ text = <<>> THEN [date |-> NullDate, times |-> <<>>]
    ELSE LET k == FirstPattern(text)
         IN  IF k = 0 THEN [date |-> NullDate, times |-> parseTimes(text)]
             ELSE LET pattern == DatePatterns[k]
                      i == MatchPos(pattern, text)
                      year == IF pattern.year THEN text[i].year ELSE clockYear
                  IN  [date |-> DateValue(year, text[i].day),
                       times |-> parseTimes(RemoveMatch(text, i, pattern))]

----------------------------------------------------------------------------
(* TimeArithmetic *)

\* string comparison of two "HH:mm:ss" values
TimeLt(a, b) ==
    \/ a[1] < b[1]
    \/ a[1] = b[1] /\ a[2] < b[2]
    \/ a[1] = b[1] /\ a[2] = b[2] /\ a[3] < b[3]

TimeLe(a, b) == a = b \/ TimeLt(a, b)

\* new Date(date + "T" + time + "Z").getTime(): NaN for an invalid date string
DateTimeToTimestamp(date, time) ==
    IF date = NullDate \/ time[1] > 23 \/ time[2] > 59 THEN NaN
    ELSE date * MinutesPerDay + time[1] * 60 + time[2]

\* timestampToDateAndTime: toISOString() split at "T"
timestampToDateAndTime(ts) ==
    [date |-> ts \div MinutesPerDay,
     time |-> <<(ts % MinutesPerDay) \div 60, ts % 60, 0>>]

\* arithmetic and comparison on timestamps, NaN-propagating
TsAdd(ts, d) == IF ts = NaN THEN NaN ELSE ts + d
TsLess(a, b) == a # NaN /\ b # NaN /\ a < b

----------------------------------------------------------------------------
(* GridInferenceEngine: parseTimesAndAvailabilities *)

\* lines 180-181
HasQuarterLabel(timesArray) ==
    \E i \in 1..Len(timesArray) :
        \E k \in 1..Len(timesArray[i]) :
            timesArray[i][k].kind = "time" /\ timesArray[i][k].m \in {15, 45}

GridDelta(timesArray) == IF HasQuarterLabel(timesArray) THEN 15 ELSE 30

\* lines 185-192
GridTimestamps(date, timesArray) ==
    [i \in 1..Len(timesArray) |->
        LET times == parseTimes(timesArray[i])
        IN  IF Len(times) > 0 THEN DateTimeToTimestamp(date, times[1]) ELSE NullTs]

\* the accumulator of the scan: the list built so far, and whether
\* timestampToDateAndTime raised RangeError (toISOString of an invalid Date)
Push(acc, ts, availability) ==
    IF acc.threw THEN acc
    ELSE IF ts = NaN THEN [threw |-> TRUE, out |-> acc.out]
    ELSE LET dt == timestampToDateAndTime(ts)
         IN  [threw |-> FALSE,
              out |-> Append(acc.out, [date |-> dt.date, time |-> dt.time,
                                       availability |-> availability])]

\* lines 199-202: first index >= i holding a timestamp, or n + 1
RECURSIVE RunEnd(_, _)
RunEnd(ts, j) ==
    IF j <= Len(ts) /\ ts[j] = NullTs THEN RunEnd(ts, j + 1) ELSE j

\* mutation of FillBetween: every other tick of the gap is skipped
RECURSIVE FillBetweenSkipping(_, _, _, _)
FillBetweenSkipping(current, end, delta, acc) ==
    IF acc.threw \/ ~TsLess(current, end) THEN acc
    ELSE FillBetweenSkipping(TsAdd(current, 2 * delta), end, delta,
                             Push(acc, current, "unavailable"))

\* mutation of FillBetween: every tick of the gap is pushed twice
RECURSIVE FillBetweenTwice(_, _, _, _)
FillBetweenTwice(current, end, delta, acc) ==
    IF acc.threw \/ ~TsLess(current, end) THEN acc
    ELSE FillBetweenTwice(TsAdd(current, delta), end, delta,
                          Push(Push(acc, current, "unavailable"), current, "unavailable"))

\* mutation of FillBetween: the right bound is filled too
RECURSIVE FillBetweenInclusive(_, _, _, _)
FillBetweenInclusive(current, end, delta, acc) ==
    IF acc.threw \/ (~TsLess(current, end) /\ current # end) THEN acc
    ELSE FillBetweenInclusive(TsAdd(current, delta), end, delta,
                              Push(acc, current, "unavailable"))

\* lines 217-226
RECURSIVE FillBetween(_, _, _, _)
FillBetween(current, end, delta, acc) ==
    IF acc.threw \/ ~TsLess(current, end) THEN acc
    ELSE FillBetween(TsAdd(current, delta), end, delta, Push(acc, current, "unavailable"))

\* mutation of FillSteps: one tick fewer than positions in the run
RECURSIVE FillStepsOneShort(_, _, _, _)
FillStepsOneShort(current, step, k, acc) ==
    IF k <= 1 \/ acc.threw THEN acc
    ELSE FillStepsOneShort(TsAdd(current, step), step, k - 1,
                           Push(acc, TsAdd(current, step), "unavailable"))

\* mutation of FillSteps: the first tick is pushed before stepping
RECURSIVE FillStepsFromCurrent(_, _, _, _)
FillStepsFromCurrent(current, step, k, acc) ==
    IF k = 0 \/ acc.threw THEN acc
    ELSE FillStepsFromCurrent(TsAdd(current, step), step, k - 1,
                              Push(acc, current, "unavailable"))

\* lines 230-239 and 243-252: k steps of `step` from `current`
RECURSIVE FillSteps(_, _, _, _)
FillSteps(current, step, k, acc) ==
    IF k = 0 \/ acc.threw THEN acc
    ELSE FillSteps(TsAdd(current, step), step, k - 1,
                   Push(acc, TsAdd(current, step), "unavailable"))

\* lines 198-255, indices 1-based
RECURSIVE GridScan(_, _, _, _)
GridScan(ts, delta, i, acc) ==
    LET n == Len(ts)
        j == RunEnd(ts, i)
    IN  IF i > n \/ acc.threw THEN acc
        ELSE IF i = j
             THEN GridScan(ts, delta, i + 1, Push(acc, ts[i], "available"))
        ELSE IF i > 1 /\ j <= n
             THEN GridScan(ts, delta, j,
                           FillBetween(TsAdd(ts[i - 1], delta), ts[j], delta, acc))
        ELSE IF i = 1
             THEN GridScan(ts, delta, j,
                           FillSteps(IF j <= n THEN ts[j] ELSE NaN, 0 - delta, j - i, acc))
        ELSE GridScan(ts, delta, j, FillSteps(ts[i - 1], delta, n + 1 - i, acc))

parseTimesAndAvailabilities(date, timesArray) ==
    IF Len(timesArray) = 0 \/ ~(\E i \in 1..Len(timesArray) : timesArray[i] # BlankLabel)
    THEN [threw |-> FALSE, out |-> <<>>]
    ELSE LET res == GridScan(GridTimestamps(date, timesArray), GridDelta(timesArray), 1,
                             [threw |-> FALSE, out |-> <<>>])
         IN  IF res.threw THEN [threw |-> TRUE, out |-> <<>>] ELSE res

----------------------------------------------------------------------------
(* TimeArithmetic, continued *)

\* getNextTime: the hour field is not reduced modulo 24
\* mutation of getNextTime: the hour wraps at midnight
getNextTimeWrapping(time, deltaMinutes) ==
    LET nextMinutes == time[2] + deltaMinutes
        nextHours == time[1] + (nextMinutes \div 60)
    IN  <<nextHours % 24, nextMinutes % 60, time[3]>>

getNextTime(time, deltaMinutes) ==
    LET nextMinutes == time[2] + deltaMinutes
        nextHours == time[1] + (nextMinutes \div 60)
    IN  <<nextHours, nextMinutes % 60, time[3]>>

\* a decimal string is the sequence of its digits
RECURSIVE Digits(_)
Digits(n) == IF n < 10 THEN <<n>> ELSE Append(Digits(n \div 10), n % 10)

RECURSIVE Number(_)
Number(str) ==
    IF str = <<>> THEN 0 ELSE 10 * Number(SubSeq(str, 1, Len(str) - 1)) + str[Len(str)]

\* n.toString().padStart(2, "0")
PadStart2(n) == IF Len(Digits(n)) < 2 THEN <<0>> \o Digits(n) ELSE Digits(n)

\* line 163, time.split(":").map(Number), and the template of line 168
SplitTime(str) == <<Number(str[1]), Number(str[2]), Number(str[3])>>
FormatTime(time) == <<PadStart2(time[1]), PadStart2(time[2]), PadStart2(time[3])>>

\* new Date(null) is the epoch, counted from the reference day
EpochDay == -20000

\* A time zone is the offset of local time from UTC, in minutes, before and
\* from a transition instant (UTC minutes since the reference day); a zone
\* without daylight saving has the same offset on both sides.
Zone(before, after, transition) ==
    [before |-> before, after |-> after, transition |-> transition]

UTC == Zone(0, 0, 0)

\* host zones: UTC; a zone without daylight saving (UTC-8); US Pacific and
\* Central Europe around the start of daylight saving on the reference day
\* (02:00 local = 10:00 UTC, resp. 01:00 UTC); US Pacific around its end on
\* the reference day (02:00 local = 09:00 UTC)
Zones ==
    {UTC, Zone(-480, -480, 0), Zone(-480, -420, 600), Zone(60, 120, 60),
     Zone(-420, -480, 540)}

\* the offset in force at a UTC instant (Date.getTimezoneOffset, negated)
OffsetAt(zone, utc) == IF utc < zone.transition THEN zone.before ELSE zone.after

\* the UTC instant of a local wall-clock time; a wall time skipped by the
\* transition is read with the offset in force before it
LocalToUtc(zone, local) ==
    IF local - zone.before < zone.transition THEN local - zone.before
    ELSE IF local - zone.after >= zone.transition THEN local - zone.after
    ELSE local - zone.before

\* getNextDate: the date string is read as UTC midnight, getDate / setDate
\* move the local calendar day keeping the local wall time, toISOString
\* prints the UTC day
getNextDate(date, deltaDays) ==
    LET utc == (IF date = NullDate THEN EpochDay ELSE date) * MinutesPerDay
        local == utc + OffsetAt(tz, utc)
        moved == local + deltaDays * MinutesPerDay
    IN  LocalToUtc(tz, moved) \div MinutesPerDay

----------------------------------------------------------------------------
(* VisibilityWindowInference: handleRestaurantPageWithFullAvailabilityPopup *)

Undefined == <<>>            \* result of find / findLast without a match

\* "HH:mm:ss" as its characters: the digits, and ':' which sorts after them
Colon == 10
TimeString(time) ==
    PadStart2(time[1]) \o <<Colon>> \o PadStart2(time[2]) \o <<Colon>> \o PadStart2(time[3])

\* comparison of two strings by code units
RECURSIVE LexLess(_, _)
LexLess(x, y) ==
    IF y = <<>> THEN FALSE
    ELSE IF x = <<>> THEN TRUE
    ELSE IF Head(x) # Head(y) THEN Head(x) < Head(y)
    ELSE LexLess(Tail(x), Tail(y))

\* `<`, `<=` of two strings, one of which may be undefined (always false
\* then); with two digits in every field the order of the strings is the
\* order of the times
StrLess(x, y) ==
    /\ x # Undefined /\ y # Undefined
    /\ IF x[1] < 100 /\ y[1] < 100 THEN TimeLt(x, y)
       ELSE LexLess(TimeString(x), TimeString(y))
StrLessEq(x, y) == x # Undefined /\ y # Undefined /\ (x = y \/ StrLess(x, y))

\* lines 745-751: the slots whose text holds exactly one clock label
RECURSIVE TimesAndVisibilities(_)
TimesAndVisibilities(slots) ==
    IF slots = <<>> THEN <<>>
    ELSE LET parsed == parseTimes(Head(slots).text)
             rest == TimesAndVisibilities(Tail(slots))
         IN  IF Len(parsed) = 1
             THEN <<[time |-> parsed[1], visibility |-> Head(slots).visibility]>> \o rest
             ELSE rest

\* mutation of SortByTime: the list is left in page order
SortByTimeOmitted(tv) == tv

\* line 757: stable sort by time
RECURSIVE InsertByTime(_, _)
InsertByTime(sorted, x) ==
    IF sorted = <<>> THEN <<x>>
    ELSE IF TimeLt(x.time, Head(sorted).time) THEN <<x>> \o sorted
    ELSE <<Head(sorted)>> \o InsertByTime(Tail(sorted), x)

RECURSIVE SortFrom(_, _)
SortFrom(tv, sorted) ==
    IF tv = <<>> THEN sorted ELSE SortFrom(Tail(tv), InsertByTime(sorted, Head(tv)))

SortByTime(tv) == SortFrom(tv, <<>>)

\* line 779: only ":15:" is looked for
WindowDelta(tv) == IF \E i \in 1..Len(tv) : tv[i].time[2] = 15 THEN 15 ELSE 30

\* lines 783-784
FindVisible(tv) ==
    IF \E i \in 1..Len(tv) : tv[i].visibility
    THEN tv[CHOOSE i \in 1..Len(tv) :
                tv[i].visibility /\ \A k \in 1..(i - 1) : ~tv[k].visibility].time
    ELSE Undefined

FindLastVisible(tv) ==
    IF \E i \in 1..Len(tv) : tv[i].visibility
    THEN tv[CHOOSE i \in 1..Len(tv) :
                tv[i].visibility /\ \A k \in (i + 1)..Len(tv) : ~tv[k].visibility].time
    ELSE Undefined

DayStart == <<0, 0, 0>>
DayEnd == <<23, 59, 59>>

\* lines 781-797, tv sorted
ObservationWindow(tv) ==
    LET L == tv[1].time
        R == tv[Len(tv)].time
        a == FindVisible(tv)
        b == FindLastVisible(tv)
    IN  IF L = a /\ b = R THEN [start |-> DayStart, end |-> DayEnd]
        ELSE IF L = a /\ StrLess(b, R) THEN [start |-> DayStart, end |-> b]
        ELSE IF StrLess(L, a) /\ b = R THEN [start |-> a, end |-> DayEnd]
        ELSE IF StrLess(L, a) /\ StrLess(b, R) THEN [start |-> a, end |-> b]
        ELSE [start |-> DayStart, end |-> DayEnd]

\* lines 801-808: the record pushed for tick t
TickRecord(t, availableTimes, baseDate) ==
    [date |-> baseDate, time |-> t,
     info |-> IF t \in availableTimes THEN "available" ELSE "unavailable"]

\* mutation of TickLoop: the tick equal to the window end is left out
RECURSIVE TickLoopExclusive(_, _, _, _, _)
TickLoopExclusive(t, end, deltaMinutes, availableTimes, baseDate) ==
    IF ~StrLess(t, end) THEN <<>>
    ELSE <<TickRecord(t, availableTimes, baseDate)>>
            \o TickLoopExclusive(getNextTime(t, deltaMinutes), end, deltaMinutes,
                                 availableTimes, baseDate)

\* lines 800-809: the records pushed from tick t on
RECURSIVE TickLoop(_, _, _, _, _)
TickLoop(t, end, deltaMinutes, availableTimes, baseDate) ==
    IF ~StrLessEq(t, end) THEN <<>>
    ELSE <<TickRecord(t, availableTimes, baseDate)>>
            \o TickLoop(getNextTime(t, deltaMinutes), end, deltaMinutes,
                        availableTimes, baseDate)

\* lines 743-809
InferVisible(baseDate, slots) ==
    LET unsorted == TimesAndVisibilities(slots)
    IN  IF Len(unsorted) = 0 THEN <<>>
        ELSE LET tv == SortByTime(unsorted)
                 w == ObservationWindow(tv)
                 availableTimes == {tv[i].time : i \in 1..Len(tv)}
             IN  TickLoop(w.start, w.end, WindowDelta(tv), availableTimes, baseDate)

\* lines 722-810; timeSlots is the first visible time-slots element:
\* kind "none" (no such element), "noavail" ("no online availability on the
\* selected day"), "unfortunately", or "slots" with its <li> children
FullAvailabilityPopup(baseDate, timeSlots) ==
    IF timeSlots.kind = "noavail"
    THEN <<[startDate |-> baseDate, startTime |-> DayStart,
            endDate |-> getNextDate(baseDate, 1), endTime |-> DayStart,
            info |-> "unavailable"]>>
    ELSE IF timeSlots.kind = "unfortunately"
    THEN <<[date |-> baseDate, time |-> DayStart, info |-> "Unfortunately"]>>
    ELSE IF timeSlots.kind = "slots"
    THEN InferVisible(baseDate, timeSlots.slots)
    ELSE <<>>

----------------------------------------------------------------------------
(* ResultAggregator: handleSearchPage *)

\* containers of the search page, in document order within each kind
Promoted == <<"p1", "p2">>       \* [data-test="multi-search-pop-table"] > ul > li
Cards == <<"k1", "k2">>          \* [data-test="restaurant-card"]
Days == <<"d1", "d2">>           \* [data-test="multi-day-timeslot-container"]

Range(seq) == {seq[i] : i \in 1..Len(seq)}
Containers == Range(Promoted) \cup Range(Cards) \cup Range(Days)

NoOnlineAvailability == "no online availability"

\* an element as the handler reads it: isVisible(el), the text of its
\* time-slots child, the filtered <li> texts, and (day containers) the date
\* parsed from its text
Element(visible, timeSlots, times, date) ==
    [visible |-> visible, timeSlots |-> timeSlots, times |-> times, date |-> date]

\* accumulator of one invocation
StartOfInvocation(rec) ==
    [recorded |-> rec, list |-> <<>>, threw |-> FALSE,
     pushed |-> [c \in Containers |-> <<>>],
     sets |-> [c \in Containers |-> 0],
     prevAvailable |-> Undefined, nextAvailable |-> Undefined]

PointRecord(name, date, time, info) ==
    [restaurantName |-> name, date |-> date, time |-> time, info |-> info]

\* results.push(...) of `recs` on behalf of container c
PushAll(st, c, recs) ==
    [st EXCEPT !.list = @ \o recs, !.pushed[c] = @ \o recs]

\* lines 313-322, 350-359, 382-390: one record per availability
RECURSIVE AvailabilityRecords(_, _)
AvailabilityRecords(name, availabilities) ==
    IF availabilities = <<>> THEN <<>>
    ELSE <<PointRecord(name, Head(availabilities).date, Head(availabilities).time,
                       Head(availabilities).availability)>>
            \o AvailabilityRecords(name, Tail(availabilities))

\* mutation of isRecorded: the attribute is never found
isRecordedNever(rec, c) == FALSE

\* lines 28-34
isRecorded(rec, c) == rec[c]
setIsRecorded(st, c) == [st EXCEPT !.recorded[c] = TRUE, !.sets[c] = @ + 1]

\* lines 299 and 335
HasNoAvailabilityText(el) == el.timeSlots = NoOnlineAvailability

\* lines 291-323: one promoted listing; marked before it is read
PromotedListing(st, c, el, base) ==
    IF st.threw \/ ~el.visible \/ isRecorded(st.recorded, c) THEN st
    ELSE LET marked == setIsRecorded(st, c)
         IN  IF HasNoAvailabilityText(el)
             THEN PushAll(marked, c, <<PointRecord(c, base.date, base.time, el.timeSlots)>>)
             ELSE LET a == parseTimesAndAvailabilities(base.date, el.times)
                  IN  IF a.threw THEN [marked EXCEPT !.threw = TRUE]
                      ELSE PushAll(marked, c, AvailabilityRecords(c, a.out))

\* mutation of CardIsSealed: a card with slots is never marked
CardIsSealedNever(availabilities) == FALSE

\* line 360
CardIsSealed(availabilities) == Len(availabilities) > 0

\* mutation of CardIsSkipped: the mark is not looked at
CardIsSkippedNever(rec, c) == FALSE

\* line 330
CardIsSkipped(rec, c) == isRecorded(rec, c)

\* lines 329-365: one restaurant card; marked after a non-empty yield
RestaurantCard(st, c, el, base) ==
    IF st.threw \/ ~el.visible \/ CardIsSkipped(st.recorded, c) THEN st
    ELSE IF HasNoAvailabilityText(el)
         THEN setIsRecorded(
                 PushAll(st, c, <<PointRecord(c, base.date, base.time, el.timeSlots)>>), c)
         ELSE LET a == parseTimesAndAvailabilities(base.date, el.times)
                  pushedAll == PushAll(st, c, AvailabilityRecords(c, a.out))
              IN  IF a.threw THEN [st EXCEPT !.threw = TRUE]
                  ELSE IF CardIsSealed(a.out) THEN setIsRecorded(pushedAll, c)
                  ELSE pushedAll

\* "YYYY-MM-DD" string comparison; false when either side is null
DateLess(x, y) == x # NullDate /\ y # NullDate /\ x < y

\* mutation of UpdatePrevAvailable: the first slot found at or before the
\* baseline is kept
UpdatePrevAvailableFirst(prev, a, base) ==
    IF DateLess(a.date, base.date) \/ (a.date = base.date /\ StrLessEq(a.time, base.time))
    THEN IF prev = Undefined THEN [date |-> a.date, time |-> a.time] ELSE prev
    ELSE prev

\* lines 393-405
UpdatePrevAvailable(prev, a, base) ==
    IF DateLess(a.date, base.date) \/ (a.date = base.date /\ StrLessEq(a.time, base.time))
    THEN IF prev = Undefined THEN [date |-> a.date, time |-> a.time]
         ELSE IF a.date > prev.date \/ (a.date = prev.date /\ TimeLt(prev.time, a.time))
              THEN [date |-> a.date, time |-> a.time]
              ELSE prev
    ELSE prev

\* lines 408-420
UpdateNextAvailable(next, a, base) ==
    IF DateLess(base.date, a.date) \/ (a.date = base.date /\ StrLess(base.time, a.time))
    THEN IF next = Undefined THEN [date |-> a.date, time |-> a.time]
         ELSE IF a.date < next.date \/ (a.date = next.date /\ TimeLt(a.time, next.time))
              THEN [date |-> a.date, time |-> a.time]
              ELSE next
    ELSE next

\* lines 382-422: prevAvailable / nextAvailable over the availabilities of a day
RECURSIVE TrackAvailable(_, _, _)
TrackAvailable(st, availabilities, base) ==
    IF availabilities = <<>> THEN st
    ELSE LET a == Head(availabilities)
             st1 == IF a.availability = "available"
                    THEN [st EXCEPT
                            !.prevAvailable = UpdatePrevAvailable(@, a, base),
                            !.nextAvailable = UpdateNextAvailable(@, a, base)]
                    ELSE st
         IN  TrackAvailable(st1, Tail(availabilities), base)

\* lines 374-424: one day container of the multi-day popup; never marked
DayContainer(st, c, el, base) ==
    IF st.threw \/ ~el.visible THEN st
    ELSE LET a == parseTimesAndAvailabilities(el.date, el.times)
         IN  IF a.threw THEN [st EXCEPT !.threw = TRUE]
             ELSE TrackAvailable(PushAll(st, c, AvailabilityRecords("popup", a.out)),
                                 a.out, base)

IntervalRecord(startDate, startTime, endDate, endTime) ==
    [restaurantName |-> "popup", startDate |-> startDate, startTime |-> startTime,
     endDate |-> endDate, endTime |-> endTime, info |-> "unavailable"]

\* mutation of PopupInterval: the interval is pushed on every page
PopupIntervalAnyPage(st, curPage, base) ==
    IF st.threw THEN st
    ELSE IF st.nextAvailable # Undefined
         THEN [st EXCEPT !.list = Append(@, IntervalRecord(
                    base.date, base.time, st.nextAvailable.date, st.nextAvailable.time))]
    ELSE st

\* lines 428-453
PopupInterval(st, curPage, base) ==
    IF st.threw \/ curPage # "1" THEN st
    ELSE IF st.prevAvailable # Undefined /\ st.nextAvailable # Undefined
         THEN [st EXCEPT !.list = Append(@, IntervalRecord(
                    st.prevAvailable.date, st.prevAvailable.time,
                    st.nextAvailable.date, st.nextAvailable.time))]
    ELSE IF st.nextAvailable # Undefined
         THEN [st EXCEPT !.list = Append(@, IntervalRecord(
                    base.date, base.time, st.nextAvailable.date, st.nextAvailable.time))]
    ELSE st

\* querySelectorAll(...).forEach over the containers of one kind
RECURSIVE ForEach(_, _, _, _)
ForEach(Handler(_, _, _, _), st, cs, pg) ==
    IF cs = <<>> THEN st
    ELSE ForEach(Handler, Handler(st, Head(cs), pg.dom[Head(cs)], pg.base), Tail(cs), pg)

\* lines 259-455; pg.base is baseDate / baseTime after lines 260-287
handleSearchPage(pg, rec) ==
    LET afterPromoted == ForEach(PromotedListing, StartOfInvocation(rec), Promoted, pg)
        afterCards == ForEach(RestaurantCard, afterPromoted, Cards, pg)
    IN  IF pg.popup = "none" THEN afterCards
        ELSE PopupInterval(ForEach(DayContainer, afterCards, Days, pg), pg.popup, pg.base)

----------------------------------------------------------------------------
(* Specification of the grid engine as a function of its arguments *)

NoResult == [threw |-> FALSE, out |-> <<>>]

PageIdle ==
    /\ page = [base |-> [date |-> NullDate, time |-> Undefined], popup |-> "none",
               dom |-> [c \in Containers |-> Element(FALSE, "", <<>>, NullDate)]]
    /\ recorded = [c \in Containers |-> FALSE]
    /\ results = [threw |-> FALSE, list |-> <<>>]
    /\ pushed = [c \in Containers |-> <<>>]
    /\ prevPushed = [c \in Containers |-> <<>>]
    /\ zeroYield = {}
    /\ markSets = [c \in Containers |-> 0]
    /\ tracked = [prev |-> Undefined, next |-> Undefined]
    /\ last = "idle"

CallIdle == clockYear = 0 /\ fName = "none" /\ fArg = <<>> /\ fOut = <<>> /\ fPc = "idle"

DateIdle ==
    /\ tz = UTC /\ nDate = NullDate /\ nDelta = 0 /\ nOut = NullDate /\ nPc = "idle"
    /\ CallIdle

GridIdle == gDate = NullDate /\ gTimes = <<>> /\ gOut = NoResult /\ gPc = "idle"
WindowIdle ==
    wBase = NullDate /\ wSlots = [kind |-> "none", slots |-> <<>>] /\ wOut = <<>> /\ wPc = "idle"

InitGrid ==
    /\ gDate \in GridDates
    /\ gTimes \in SeqsUpTo(Labels, MaxLen)
    /\ gOut = NoResult
    /\ gPc = "ready"
    /\ WindowIdle
    /\ PageIdle
    /\ DateIdle

GridCall ==
    /\ gPc = "ready"
    /\ gOut' = parseTimesAndAvailabilities(gDate, gTimes)
    /\ gPc' = "done"
    /\ UNCHANGED <<gDate, gTimes, windowVars, pageVars, dateVars, callVars>>

NextGrid == GridCall

SpecGrid == InitGrid /\ [][NextGrid]_vars

----------------------------------------------------------------------------
(* Specification of the search page under repeated invocation *)

SlotLabels == <<BlankLabel, <<TimeToken(11, 30, "PM")>>>>

Hidden == Element(FALSE, "", <<>>, NullDate)
NoAvailability == Element(TRUE, NoOnlineAvailability, <<>>, NullDate)
NoSlotsYet == Element(TRUE, "", <<BlankLabel>>, NullDate)
WithSlots == Element(TRUE, "", SlotLabels, NullDate)
DayWithSlots == Element(TRUE, "", SlotLabels, 1)

\* the popup of the search page scenario shows one day
ElementsOf(c) ==
    IF c \in Range(Promoted) THEN {Hidden, NoSlotsYet, WithSlots}
    ELSE IF c \in Range(Cards) THEN {Hidden, NoAvailability, NoSlotsYet, WithSlots}
    ELSE IF c = Days[1] THEN {Hidden, DayWithSlots}
    ELSE {Hidden}

\* the pickers parsed (a date the patterns match, or none: null) with a time
Baselines == {[date |-> 0, time |-> <<19, 0, 0>>], [date |-> NullDate, time |-> <<19, 0, 0>>]}
PopupPages == {"none", "1", "2"}

NothingPushed == [c \in Containers |-> <<>>]
NothingTracked == [prev |-> Undefined, next |-> Undefined]

InitPage ==
    /\ page = [base |-> [date |-> 0, time |-> <<19, 0, 0>>], popup |-> "none",
               dom |-> [c \in Containers |-> Hidden]]
    /\ recorded = [c \in Containers |-> FALSE]
    /\ results = [threw |-> FALSE, list |-> <<>>]
    /\ pushed = NothingPushed
    /\ prevPushed = NothingPushed
    /\ zeroYield = {}
    /\ markSets = [c \in Containers |-> 0]
    /\ tracked = NothingTracked
    /\ last = "mutate"
    /\ GridIdle
    /\ WindowIdle
    /\ DateIdle

\* the page changes between invocations: an element scrolls, renders, or is
\* replaced in place; the list returned before is gone
PageChanges(pg) ==
    /\ page' = pg
    /\ pg # page
    /\ results' = [threw |-> FALSE, list |-> <<>>]
    /\ pushed' = NothingPushed
    /\ prevPushed' = NothingPushed
    /\ zeroYield' = {c \in zeroYield : ~recorded[c]}
    /\ tracked' = NothingTracked
    /\ last' = "mutate"
    /\ UNCHANGED <<recorded, markSets, gridVars, windowVars, dateVars, callVars>>

ElementChanges ==
    \E c \in Containers : \E el \in ElementsOf(c) :
        PageChanges([page EXCEPT !.dom[c] = el])

BaselineChanges == \E b \in Baselines : PageChanges([page EXCEPT !.base = b])

PopupChanges == \E p \in PopupPages : PageChanges([page EXCEPT !.popup = p])

\* one run of the script on the search page
Invoke ==
    \E st \in {handleSearchPage(page, recorded)} :
        /\ recorded' = st.recorded
        /\ results' = IF st.threw THEN [threw |-> TRUE, list |-> <<>>]
                      ELSE [threw |-> FALSE, list |-> st.list]
        /\ pushed' = st.pushed
        /\ prevPushed' = IF last = "invoke" THEN pushed ELSE NothingPushed
        /\ zeroYield' = zeroYield \cup
                {c \in Range(Cards) : /\ page.dom[c].visible /\ ~recorded[c] /\ ~st.threw
                                      /\ st.pushed[c] = <<>>}
        /\ markSets' = [c \in Containers |->
                            IF markSets[c] + st.sets[c] > 2 THEN 2
                            ELSE markSets[c] + st.sets[c]]
        /\ tracked' = [prev |-> st.prevAvailable, next |-> st.nextAvailable]
        /\ last' = "invoke"
        /\ UNCHANGED <<page, gridVars, windowVars, dateVars, callVars>>

Next == ElementChanges \/ BaselineChanges \/ PopupChanges \/ Invoke

Spec == InitPage /\ [][Next]_vars

----------------------------------------------------------------------------
(* Properties of the grid engine (checked under SpecGrid) *)

GridDone == gPc = "done"
GridReturned == gPc = "done" /\ ~gOut.threw

\* the instant of the k-th emitted record, in minutes
OutTs(k) == gOut.out[k].date * MinutesPerDay + gOut.out[k].time[1] * 60 + gOut.out[k].time[2]

gTs == GridTimestamps(gDate, gTimes)
KnownPos == {i \in 1..Len(gTimes) : gTs[i] # NullTs}
NoTimeParsed == \A i \in 1..Len(gTimes) : parseTimes(gTimes[i]) = <<>>

\* the known labels of the array are strictly increasing in time
LabelsIncreasing ==
    /\ gDate # NullDate
    /\ \A i, j \in KnownPos : i < j => gTs[i] < gTs[j]

\* C3 (as claimed): the grid engine raises no exception, whatever the array
\* (blank, clock label, text without a clock label) and the date (null
\* included); a fragment with no parseable time yields zero observations.
C3_NoException ==
    GridDone => /\ ~gOut.threw
                /\ (NoTimeParsed => gOut.out = <<>>)

\* C5 (as claimed, on arrays whose labels are in increasing order): the
\* records of one fragment are emitted in strictly increasing (date,time)
\* order, arrays with two or more leading blanks included.
C5_Chronological ==
    (GridReturned /\ LabelsIncreasing) =>
        \A k \in 1..(Len(gOut.out) - 1) : OutTs(k) < OutTs(k + 1)

\* the emitted ticks, sorted by time, are spaced by exactly the granularity
EvenlySpaced ==
    LET n == Len(gOut.out)
        d == GridDelta(gTimes)
        first == CHOOSE k \in 1..n : \A l \in 1..n : OutTs(k) <= OutTs(l)
    IN  n > 0 =>
          /\ \A k, l \in 1..n : k # l => OutTs(k) # OutTs(l)
          /\ \A k \in 1..n : k = first \/ \E l \in 1..n : OutTs(l) = OutTs(k) - d

\* C6 (as claimed): in every output the ticks sorted by time are evenly
\* spaced by the inferred granularity, whatever labels and blanks are given.
C6_EvenlySpacedAlways == GridReturned => EvenlySpaced

\* the known labels lie on one grid: neighbours at adjacent positions are one
\* granularity apart, neighbours separated by blanks a positive multiple of it
NextKnown(i) == CHOOSE j \in KnownPos : j > i /\ \A q \in KnownPos : q > i => j <= q
LabelsOnGrid ==
    LET d == GridDelta(gTimes)
    IN  /\ gDate # NullDate
        /\ \A i \in KnownPos :
             (\E q \in KnownPos : q > i) =>
                LET j == NextKnown(i)
                    gap == gTs[j] - gTs[i]
                IN  IF j = i + 1 THEN gap = d ELSE gap > 0 /\ gap % d = 0

\* C6 (amended): when the known labels lie on one grid, the emitted ticks
\* sorted by time are evenly spaced by exactly the inferred granularity.
C6_EvenlySpacedOnGrid == (GridReturned /\ LabelsOnGrid) => EvenlySpaced

\* C6 witness: a gap between two known labels was filled on a 15-minute grid
C6_Witness ==
    /\ GridReturned /\ LabelsOnGrid
    /\ GridDelta(gTimes) = 15
    /\ Cardinality(KnownPos) >= 2
    /\ \E k \in 1..Len(gOut.out) : gOut.out[k].availability = "unavailable"
    /\ Len(gTimes) = 3 /\ gTs[2] = NullTs /\ gTs[1] # NullTs /\ gTs[3] # NullTs

----------------------------------------------------------------------------
(* Specification of the full-availability popup handler *)

WindowTokens ==
    {TimeToken(11, 30, "AM"), TimeToken(11, 45, "AM"), TimeToken(12, 15, "PM"),
     TimeToken(11, 0, "PM"), TimeToken(11, 30, "PM")}

SlotTexts == {<<Word>>} \cup {<<t>> : t \in WindowTokens}
Slots == [text : SlotTexts, visibility : BOOLEAN]

TimeSlotsElements ==
    {[kind |-> k, slots |-> <<>>] : k \in {"none", "noavail", "unfortunately"}}
        \cup {[kind |-> "slots", slots |-> sl] : sl \in SeqsUpTo(Slots, MaxSlots)}

InitWindow ==
    /\ wBase \in {NullDate, 0}
    /\ wSlots \in TimeSlotsElements
    /\ wOut = <<>>
    /\ wPc = "ready"
    /\ tz \in (IF wSlots.kind = "noavail" THEN Zones ELSE {UTC})
    /\ nDate = NullDate /\ nDelta = 0 /\ nOut = NullDate /\ nPc = "idle"
    /\ CallIdle
    /\ GridIdle
    /\ PageIdle

WindowCall ==
    /\ wPc = "ready"
    /\ wOut' = FullAvailabilityPopup(wBase, wSlots)
    /\ wPc' = "done"
    /\ UNCHANGED <<wBase, wSlots, gridVars, pageVars, dateVars, callVars>>

NextWindow == WindowCall

SpecWindow == InitWindow /\ [][NextWindow]_vars

----------------------------------------------------------------------------
(* Specification of getNextDate as a function of its arguments and the host zone *)

InitDate ==
    /\ tz \in Zones
    /\ nDate \in 0..MaxDate
    /\ nDelta \in 1..MaxDelta
    /\ nOut = NullDate
    /\ nPc = "ready"
    /\ CallIdle
    /\ GridIdle
    /\ WindowIdle
    /\ PageIdle

DateCall ==
    /\ nPc = "ready"
    /\ nOut' = getNextDate(nDate, nDelta)
    /\ nPc' = "done"
    /\ UNCHANGED <<tz, nDate, nDelta, gridVars, windowVars, pageVars, callVars>>

NextDate == DateCall

SpecDate == InitDate /\ [][NextDate]_vars

\* C20 (as claimed): in every host time zone getNextDate(date, n) is the
\* calendar day n days after date (n = 1: the day immediately following).
C20_NextCalendarDay == nPc = "done" => nOut = nDate + nDelta

----------------------------------------------------------------------------
(* Properties of the visibility-window inference (checked under SpecWindow) *)

WindowDone == wPc = "done" /\ wSlots.kind = "slots"

\* the day's entries, straight from the slots (no sorting involved)
wEntries == TimesAndVisibilities(wSlots.slots)
wKnown == {wEntries[i].time : i \in 1..Len(wEntries)}
wVisible == {wEntries[i].time : i \in {k \in 1..Len(wEntries) : wEntries[k].visibility}}

Earliest(S) == CHOOSE t \in S : \A u \in S : TimeLe(t, u)
Latest(S) == CHOOSE t \in S : \A u \in S : TimeLe(u, t)

wWindow == ObservationWindow(SortByTime(wEntries))

\* C4 (as claimed): a day with at least one parsed time and no visible entry
\* produces no observation at all.
C4_NoVisibleNoOutput ==
    (WindowDone /\ wKnown # {} /\ wVisible = {}) => wOut = <<>>

\* C7: with at least one visible entry exactly one of the four cases applies
\* and the window is the one of the table; the first emitted tick is its start.
C7_FourCases ==
    (WindowDone /\ wVisible # {}) =>
        LET L == Earliest(wKnown)
            R == Latest(wKnown)
            a == Earliest(wVisible)
            b == Latest(wVisible)
            case1 == L = a /\ b = R
            case2 == L = a /\ TimeLt(b, R)
            case3 == TimeLt(L, a) /\ b = R
            case4 == TimeLt(L, a) /\ TimeLt(b, R)
            expected == IF case1 THEN [start |-> <<0, 0, 0>>, end |-> <<23, 59, 59>>]
                        ELSE IF case2 THEN [start |-> <<0, 0, 0>>, end |-> b]
                        ELSE IF case3 THEN [start |-> a, end |-> <<23, 59, 59>>]
                        ELSE [start |-> a, end |-> b]
        IN  /\ Cardinality({c \in {1, 2, 3, 4} :
                             \/ c = 1 /\ case1
                             \/ c = 2 /\ case2
                             \/ c = 3 /\ case3
                             \/ c = 4 /\ case4}) = 1
            /\ wWindow = expected
            /\ Len(wOut) > 0 /\ wOut[1].time = expected.start

\* C7 witness: the clipped case L < a and b < R
C7_Witness ==
    /\ WindowDone /\ wVisible # {}
    /\ TimeLt(Earliest(wKnown), Earliest(wVisible))
    /\ TimeLt(Latest(wVisible), Latest(wKnown))
    /\ Len(wOut) > 0

\* seconds since midnight of an "HH:mm:ss" value
Secs(t) == t[1] * 3600 + t[2] * 60 + t[3]

\* C8: exactly one observation per tick start, start+d, ... <= end, in that
\* order, available iff the tick is a known time of the day; nothing outside.
C8_TicksOfWindow ==
    (WindowDone /\ wKnown # {}) =>
        LET d == WindowDelta(SortByTime(wEntries))
            start == Secs(wWindow.start)
            end == Secs(wWindow.end)
            count == IF start > end THEN 0 ELSE ((end - start) \div (d * 60)) + 1
            known == wKnown
        IN  /\ Len(wOut) = count
            /\ \A k \in 1..Len(wOut) :
                 /\ Secs(wOut[k].time) = start + (k - 1) * d * 60
                 /\ wOut[k].time[2] < 60 /\ wOut[k].time[3] < 60
                 /\ wOut[k].date = wBase
                 /\ wOut[k].info = (IF wOut[k].time \in known THEN "available"
                                    ELSE "unavailable")
                 /\ start <= Secs(wOut[k].time) /\ Secs(wOut[k].time) <= end

\* C8 witness: a window clipped at its end, whose last tick is the window
\* end itself, holding available and unavailable ticks
C8_Witness ==
    /\ WindowDone /\ wVisible # {}
    /\ wWindow.end # <<23, 59, 59>>
    /\ Len(wOut) >= 3
    /\ wOut[Len(wOut)].time = wWindow.end
    /\ \E k \in 1..Len(wOut) : wOut[k].info = "unavailable"
    /\ \E k \in 1..Len(wOut) : wOut[k].info = "available"

----------------------------------------------------------------------------
(* Properties of the recorded marks (checked under Spec) *)

AfterInvocation == last = "invoke"
CardSet == Range(Cards)
PromotedSet == Range(Promoted)
DaySet == Range(Days)

\* every record of `recs` is in the list returned as `res`
EmittedIn(res, recs) ==
    /\ ~res.threw
    /\ \A i \in 1..Len(recs) : \E j \in 1..Len(res.list) : res.list[j] = recs[i]

Emitted(recs) == EmittedIn(results, recs)

\* C1: a restaurant card that pushes at least one record in an invocation
\* (slot observations or the "no online availability" record) is marked in
\* that invocation; a marked card stays marked and pushes nothing in any
\* later invocation.
C1_SealedCardIsSilent ==
    [][\A c \in CardSet :
          /\ recorded[c] => recorded'[c]
          /\ last' = "invoke" =>
                /\ pushed'[c] # <<>> => recorded'[c]
                /\ recorded[c] => pushed'[c] = <<>>]_vars

\* C1 witness: a visible card with slots that contributed in the invocation
\* before is marked and contributes nothing in this one
C1_Witness ==
    /\ AfterInvocation
    /\ \E c \in CardSet :
          /\ page.dom[c] = WithSlots /\ recorded[c]
          /\ prevPushed[c] # <<>> /\ pushed[c] = <<>>

\* C2 (as claimed): over an unchanged page, a container of any kind that
\* contributed in the first of two invocations contributes nothing in the
\* second.
C2_NoContainerRepeats ==
    AfterInvocation =>
        \A c \in Containers : prevPushed[c] # <<>> => pushed[c] = <<>>

\* C2 (amended): over an unchanged page, a search result card or promoted
\* listing that contributed in the first of two invocations contributes
\* nothing in the second; a day container of the multi-day popup carries no
\* mark and contributes the same records again.
C2_OnlyMarkedKindsAreSilent ==
    AfterInvocation =>
        /\ \A c \in CardSet \cup PromotedSet : prevPushed[c] # <<>> => pushed[c] = <<>>
        /\ \A d \in DaySet : prevPushed[d] # <<>> =>
                /\ pushed[d] = prevPushed[d]
                /\ Emitted(pushed[d])
                /\ ~recorded[d]

\* C2 witness: second invocation over an unchanged page with a silent card,
\* a silent promoted listing and a day container repeating its records
C2_Witness ==
    /\ AfterInvocation
    /\ \E c \in CardSet : prevPushed[c] # <<>> /\ pushed[c] = <<>>
    /\ \E q \in PromotedSet : prevPushed[q] # <<>> /\ pushed[q] = <<>>
    /\ \E d \in DaySet : prevPushed[d] # <<>> /\ pushed[d] = prevPushed[d]

\* C9 (as claimed): a promoted listing is marked in the first invocation in
\* which it is visible, whatever it yields, and pushes nothing in any later
\* invocation.
C9_PromotedSealedOnSight ==
    [][\A q \in PromotedSet :
          last' = "invoke" =>
             /\ page.dom[q].visible => recorded'[q]
             /\ recorded[q] => pushed'[q] = <<>>]_vars

\* C10 (as claimed): a visible, unmarked card that yields nothing stays
\* unmarked, and when it yields observations in a later invocation that
\* invocation emits them.
C10_ZeroYieldIsRetried ==
    [][\A c \in CardSet :
          last' = "invoke" =>
             /\ (page.dom[c].visible /\ ~recorded[c] /\ pushed'[c] = <<>>) => ~recorded'[c]
             /\ (c \in zeroYield /\ ~recorded[c] /\ pushed'[c] # <<>>) => EmittedIn(results', pushed'[c])]_vars

\* C11: a container's mark is never cleared; it goes from unset to set only
\* in an invocation in which the container is visible and sealed (a promoted
\* listing on sight, a card that pushes at least one record, a day container
\* never), by a single setIsRecorded call, and no call is made on a container
\* already marked.
C11_MarkedOnceWhenSealed ==
    [][\A c \in Containers :
          /\ recorded[c] => recorded'[c]
          /\ markSets'[c] <= 1
          /\ markSets'[c] # markSets[c] => ~recorded[c] /\ recorded'[c]
          /\ (~recorded[c] /\ recorded'[c]) =>
                /\ last' = "invoke"
                /\ markSets'[c] = markSets[c] + 1
                /\ page.dom[c].visible
                /\ c \notin DaySet
                /\ c \in CardSet => pushed'[c] # <<>>]_vars

\* C11 witness: an invocation over a page whose visible card and promoted
\* listing were marked by an earlier invocation, each by one call
C11_Witness ==
    /\ AfterInvocation
    /\ \E c \in CardSet : \E q \in PromotedSet :
          /\ page.dom[c].visible /\ recorded[c] /\ markSets[c] = 1 /\ pushed[c] = <<>>
          /\ page.dom[q].visible /\ recorded[q] /\ markSets[q] = 1 /\ pushed[q] = <<>>
          /\ prevPushed[c] # <<>>

----------------------------------------------------------------------------
(* Specification of the multi-day popup: one invocation over its day containers *)

PopupTokens == {TimeToken(6, 30, "PM"), TimeToken(7, 30, "PM")}
PopupLabels == {BlankLabel} \cup {<<t>> : t \in PopupTokens}
PopupDates == {0, 1, 2}

DayElements ==
    {Hidden} \cup {Element(TRUE, "", times, date) :
                      times \in SeqsUpTo(PopupLabels, MaxDayLen), date \in PopupDates}

\* the pickers read 7:00 PM or 7:30 PM on day 1, or a day text no date
\* pattern matches
PopupBaselines ==
    {[date |-> 1, time |-> <<19, 0, 0>>], [date |-> 1, time |-> <<19, 30, 0>>],
     [date |-> NullDate, time |-> <<19, 0, 0>>]}

InitPopup ==
    /\ \E b \in PopupBaselines : \E p \in {"1", "2"} :
          \E e1 \in DayElements : \E e2 \in DayElements :
             page = [base |-> b, popup |-> p,
                     dom |-> [c \in Containers |->
                                IF c = Days[1] THEN e1
                                ELSE IF c = Days[2] THEN e2 ELSE Hidden]]
    /\ recorded = [c \in Containers |-> FALSE]
    /\ results = [threw |-> FALSE, list |-> <<>>]
    /\ pushed = NothingPushed
    /\ prevPushed = NothingPushed
    /\ zeroYield = {}
    /\ markSets = [c \in Containers |-> 0]
    /\ tracked = NothingTracked
    /\ last = "mutate"
    /\ GridIdle
    /\ WindowIdle
    /\ DateIdle

NextPopup == Invoke

SpecPopup == InitPopup /\ [][NextPopup]_vars

----------------------------------------------------------------------------
(* Properties of the multi-day popup (checked under SpecPopup) *)

PopupScanned == last = "invoke" /\ ~results.threw
ValidBaseline == page.base.date # NullDate /\ page.base.time # Undefined

\* the available slots shown by the visible day containers, read off the page
PopupAvailableOf(d) ==
    LET el == page.dom[d]
    IN  IF ~el.visible THEN {}
        ELSE {[date |-> el.date, time |-> parseTimes(el.times[i])[1]] :
                 i \in {k \in 1..Len(el.times) : parseTimes(el.times[k]) # <<>>}}

PopupAvailable == UNION {PopupAvailableOf(d) : d \in DaySet}

\* (date,time) lexicographic order
MomentLe(x, y) == x.date < y.date \/ (x.date = y.date /\ TimeLe(x.time, y.time))

AtOrBeforeBaseline == {x \in PopupAvailable : MomentLe(x, page.base)}
AfterBaseline == PopupAvailable \ AtOrBeforeBaseline

\* C12: after all visible day containers were scanned, prevAvailable is the
\* greatest available (date,time) at or before the baseline and nextAvailable
\* the least available (date,time) strictly after it, whatever the order of
\* the days and slots; each is null iff there is no such slot.
C12_NearestAvailable ==
    (PopupScanned /\ ValidBaseline) =>
        /\ tracked.prev = (IF AtOrBeforeBaseline = {} THEN Undefined
                           ELSE CHOOSE x \in AtOrBeforeBaseline :
                                    \A y \in AtOrBeforeBaseline : MomentLe(y, x))
        /\ tracked.next = (IF AfterBaseline = {} THEN Undefined
                           ELSE CHOOSE x \in AfterBaseline :
                                    \A y \in AfterBaseline : MomentLe(x, y))

\* C12 witness: the later day is visited first, slots are out of order, and
\* both bounds are found among several candidates
C12_Witness ==
    /\ PopupScanned /\ ValidBaseline
    /\ page.dom[Days[1]].visible /\ page.dom[Days[2]].visible
    /\ page.dom[Days[1]].date > page.dom[Days[2]].date
    /\ Cardinality(AtOrBeforeBaseline) >= 2 /\ Cardinality(AfterBaseline) >= 2
    /\ tracked.prev # Undefined /\ tracked.next # Undefined

IsInterval(r) == "startDate" \in DOMAIN r
PopupIntervals == SelectSeq(results.list, IsInterval)

\* C13: at most one interval record is emitted, only on the first page and
\* only when nextAvailable is known: [prevAvailable, nextAvailable) when
\* prevAvailable is known too, [baseline, nextAvailable) otherwise; an
\* invocation that returns on the first page with nextAvailable known emits it.
C13_IntervalOnFirstPage ==
    last = "invoke" =>
        /\ Len(PopupIntervals) <= 1
        /\ Len(PopupIntervals) = 1 =>
              /\ page.popup = "1"
              /\ tracked.next # Undefined
              /\ PopupIntervals[1] =
                    (IF tracked.prev # Undefined
                     THEN IntervalRecord(tracked.prev.date, tracked.prev.time,
                                         tracked.next.date, tracked.next.time)
                     ELSE IntervalRecord(page.base.date, page.base.time,
                                         tracked.next.date, tracked.next.time))
        /\ (~results.threw /\ page.popup = "1" /\ tracked.next # Undefined) =>
              Len(PopupIntervals) = 1

\* C13 witness: a first page where only prevAvailable is known (no interval)
C13_Witness ==
    /\ PopupScanned /\ page.popup = "1"
    /\ tracked.prev # Undefined /\ tracked.next = Undefined
    /\ PopupIntervals = <<>>
    /\ Len(results.list) > 0

----------------------------------------------------------------------------
(* Properties of granularity and intervals in the full-availability popup
   (checked under SpecWindow) *)

\* C18 (as claimed, for the visibility-window inference): the ticks of a day
\* are spaced by 15 minutes exactly when one of the day's times has a
\* quarter-hour minute value (:15 or :45), and by 30 minutes otherwise.
C18_QuarterHourGranularity ==
    (WindowDone /\ wVisible # {} /\ Len(wOut) >= 2) =>
        LET d == IF \E t \in wKnown : t[2] \in {15, 45} THEN 15 ELSE 30
        IN  \A k \in 1..(Len(wOut) - 1) :
                Secs(wOut[k + 1].time) - Secs(wOut[k].time) = d * 60

MomentLt(x, y) == x.date < y.date \/ (x.date = y.date /\ TimeLt(x.time, y.time))

\* C19 (as claimed, for the whole-day interval): every interval record starts
\* on a date and strictly before it ends.
C19_IntervalsNonEmpty ==
    wPc = "done" =>
        \A k \in 1..Len(wOut) :
            IsInterval(wOut[k]) =>
                /\ wOut[k].startDate # NullDate
                /\ MomentLt([date |-> wOut[k].startDate, time |-> wOut[k].startTime],
                            [date |-> wOut[k].endDate, time |-> wOut[k].endTime])

----------------------------------------------------------------------------
(* Properties of the gap filling (checked under SpecGrid) *)

\* a position holds a clock label; its instant, computed from the label
HasTime(label) == \E k \in 1..Len(label) : label[k].kind = "time"
FirstTime(label) ==
    label[CHOOSE k \in 1..Len(label) :
            label[k].kind = "time" /\ \A l \in 1..(k - 1) : label[l].kind # "time"]
ClockMinutes(tok) == ((tok.h % 12) + (IF tok.ap = "PM" THEN 12 ELSE 0)) * 60 + tok.m
LabelTs(i) == gDate * MinutesPerDay + ClockMinutes(FirstTime(gTimes[i]))

Parsed == {i \in 1..Len(gTimes) : HasTime(gTimes[i])}
GridValid == GridReturned /\ gDate # NullDate /\ Parsed # {}
FirstParsed == CHOOSE i \in Parsed : \A j \in Parsed : i <= j
LastParsed == CHOOSE i \in Parsed : \A j \in Parsed : j <= i

\* a record is a calendar date with a time of day, at instant ts
RecordAt(r, ts, availability) ==
    /\ r.availability = availability
    /\ r.time[1] \in 0..23 /\ r.time[2] \in 0..59 /\ r.time[3] = 0
    /\ r.date * MinutesPerDay + r.time[1] * 60 + r.time[2] = ts

\* C14: k >= 1 non-parseable positions before the first known timestamp f
\* yield exactly k unavailable records, f-d, f-2d, ..., f-k*d, and these are
\* all the records before the record of f.
C14_LeadingRun ==
    (GridValid /\ FirstParsed > 1) =>
        LET k == FirstParsed - 1
            f == LabelTs(FirstParsed)
            d == GridDelta(gTimes)
        IN  /\ Len(gOut.out) >= k + 1
            /\ \A q \in 1..k : RecordAt(gOut.out[q], f - q * d, "unavailable")
            /\ RecordAt(gOut.out[k + 1], f, "available")

\* C14 witness: two leading blanks before 12:00 AM, filled on the day before
C14_Witness ==
    /\ GridValid /\ FirstParsed = 3
    /\ LabelTs(3) = gDate * MinutesPerDay
    /\ gOut.out[2].date = gDate - 1 /\ gOut.out[2].time = <<23, 0, 0>>

\* C15: k >= 1 non-parseable positions after the last known timestamp g
\* yield exactly k unavailable records, g+d, g+2d, ..., g+k*d, and these are
\* all the records after the record of g.
C15_TrailingRun ==
    (GridValid /\ LastParsed < Len(gTimes)) =>
        LET k == Len(gTimes) - LastParsed
            g == LabelTs(LastParsed)
            d == GridDelta(gTimes)
            m == Len(gOut.out)
        IN  /\ m >= k + 1
            /\ RecordAt(gOut.out[m - k], g, "available")
            /\ \A q \in 1..k : RecordAt(gOut.out[m - k + q], g + q * d, "unavailable")

\* C15 witness: two trailing blanks after 11:30 PM, filled on the next day
C15_Witness ==
    /\ GridValid /\ LastParsed = 1 /\ Len(gTimes) = 3
    /\ gOut.out[1].time = <<23, 30, 0>>
    /\ gOut.out[3].date = gDate + 1 /\ gOut.out[3].time = <<0, 30, 0>>

\* the index of the r-th available record of the output
AvailableIdx(r) ==
    CHOOSE x \in 1..Len(gOut.out) :
        /\ gOut.out[x].availability = "available"
        /\ Cardinality({y \in 1..x : gOut.out[y].availability = "available"}) = r

\* positions i < j hold known timestamps and everything between them does not
BoundedRuns ==
    {<<i, j>> \in Parsed \X Parsed :
        i + 1 < j /\ \A q \in (i + 1)..(j - 1) : q \notin Parsed}

\* C16: between the records of two known timestamps s and e that bound a run
\* of non-parseable positions, the output holds exactly the unavailable ticks
\* s+d, s+2d, ... strictly below e, whatever the length of the run.
C16_BoundedRun ==
    GridValid =>
        \A run \in BoundedRuns :
            LET s == LabelTs(run[1])
                e == LabelTs(run[2])
                d == GridDelta(gTimes)
                count == IF e > s + d THEN (e - s - 1) \div d ELSE 0
                r == Cardinality({y \in Parsed : y <= run[1]})
                x == AvailableIdx(r)
            IN  /\ Cardinality({y \in 1..Len(gOut.out) :
                                  gOut.out[y].availability = "available"}) >= r + 1
                /\ RecordAt(gOut.out[x], s, "available")
                /\ AvailableIdx(r + 1) = x + count + 1
                /\ RecordAt(gOut.out[x + count + 1], e, "available")
                /\ \A q \in 1..count : RecordAt(gOut.out[x + q], s + q * d, "unavailable")

\* C16 witness: one blank between 11:00 AM and 12:30 PM stands for two ticks
C16_Witness ==
    /\ GridValid /\ <<1, 3>> \in BoundedRuns
    /\ LabelTs(3) - LabelTs(1) = 90 /\ GridDelta(gTimes) = 30
    /\ Len(gOut.out) = 4

KnownLabels == SelectSeq(gTimes, HasTime)
IsAvailable(r) == r.availability = "available"

\* C17: an array of clock labels only yields one available record per
\* position, in order, with the given date and the label's 24-hour time, and
\* nothing else, however far apart the labels are; the engine applied to the
\* labels of the available records of any output returns those records.
C17_LabelsOnlyIsIdentity ==
    GridValid =>
        /\ Parsed = 1..Len(gTimes) =>
              /\ Len(gOut.out) = Len(gTimes)
              /\ \A i \in 1..Len(gTimes) :
                    /\ gOut.out[i].date = gDate
                    /\ gOut.out[i].time = <<ClockMinutes(FirstTime(gTimes[i])) \div 60,
                                            FirstTime(gTimes[i]).m, 0>>
                    /\ gOut.out[i].availability = "available"
        /\ parseTimesAndAvailabilities(gDate, KnownLabels)
              = [threw |-> FALSE, out |-> SelectSeq(gOut.out, IsAvailable)]

\* C17 witness: three labels, out of order and hours apart, 12 AM and 12 PM
\* among them
C17_Witness ==
    /\ GridValid /\ Parsed = 1..3
    /\ gOut.out[1].time = <<12, 0, 0>> /\ gOut.out[2].time = <<0, 30, 0>>
    /\ gOut.out[3].time = <<23, 0, 0>>

----------------------------------------------------------------------------
(* Consistency of the emitted observations *)

\* C27 (as claimed; checked under SpecWindow): with at least one visible
\* slot, every known slot time inside the observation window is emitted as an
\* available observation.
C27_KnownInWindowEmitted ==
    (WindowDone /\ wVisible # {}) =>
        \A t \in wKnown :
            (TimeLe(wWindow.start, t) /\ TimeLe(t, wWindow.end)) =>
                \E k \in 1..Len(wOut) : wOut[k].time = t /\ wOut[k].info = "available"

\* C28 (as claimed; checked under SpecPopup): no interval record of an
\* invocation covers, in its half-open span, a (date,time) the same
\* invocation emits as an available point observation.
C28_IntervalCoversNoAvailable ==
    last = "invoke" =>
        \A x \in 1..Len(results.list) : \A y \in 1..Len(results.list) :
            LET iv == results.list[x]
                pt == results.list[y]
            IN  (IsInterval(iv) /\ ~IsInterval(pt) /\ pt.info = "available") =>
                    ~(/\ MomentLe([date |-> iv.startDate, time |-> iv.startTime], pt)
                      /\ MomentLt(pt, [date |-> iv.endDate, time |-> iv.endTime]))

\* C29 (checked under SpecGrid): for labels strictly increasing in time no
\* (date,time) is emitted twice, be it as available or as unavailable.
C29_NoInstantTwice ==
    (GridReturned /\ LabelsIncreasing) =>
        \A k, l \in 1..Len(gOut.out) :
            k # l => <<gOut.out[k].date, gOut.out[k].time>>
                        # <<gOut.out[l].date, gOut.out[l].time>>

\* C29 witness: increasing labels with a leading blank and a gap of two
\* ticks, or a gap and a trailing blank
C29_Witness ==
    /\ GridReturned /\ LabelsIncreasing
    /\ Cardinality(KnownPos) = 2 /\ Len(gTimes) = 3
    /\ Len(gOut.out) >= 4

(***************************************************************************)
(* handleRestaurantPage: the reservation side panel and its popup.         *)
(***************************************************************************)
NoAvailToken == [kind |-> "noavail"]
Includes(text, kind) == \E i \in 1..Len(text) : text[i].kind = kind

\* a picker text that parseDateAndTimes found no time in and that therefore
\* stays as it is; it starts with a letter, which string comparison puts
\* after every "YYYY-MM-DD"
RawDate == 3000000
RawBase == [date |-> RawDate, time |-> Undefined]
NullBase == [date |-> NullDate, time |-> Undefined]

\* lines 829-875: pn.edit tells whether the panel shows the summary with its
\* edit button (pn.info is its text) or the pickers (pn.info is the text of
\* the day picker, a space and the text of the time picker)
PanelBaseline(pn) ==
    IF pn.info = NullText THEN NullBase
    ELSE LET parsed == parseDateAndTimes(pn.info)
         IN  IF Len(parsed.times) > 0 THEN [date |-> parsed.date, time |-> parsed.times[1]]
             ELSE IF pn.edit THEN NullBase ELSE RawBase

\* new Date(`${baseDate}T${time}Z`).getTime()
PanelTimestamp(date, time) ==
    IF date = RawDate \/ time = Undefined THEN NaN ELSE DateTimeToTimestamp(date, time)

\* lines 912-913
PanelDelta(times) ==
    IF \E k \in 1..Len(times) : times[k][2] \in {15, 45} THEN 15 ELSE 30

\* Math.min(...) and Math.max(...): NaN when an argument is NaN
MathMin(tss) ==
    IF NaN \in Range(tss) THEN NaN
    ELSE CHOOSE x \in Range(tss) : \A y \in Range(tss) : x <= y
MathMax(tss) ==
    IF NaN \in Range(tss) THEN NaN
    ELSE CHOOSE x \in Range(tss) : \A y \in Range(tss) : x >= y

\* mutation of SetAdd: a plain list
SetAddAgain(set, ts) == Append(set, ts)

\* Set.prototype.add, the set kept in insertion order
SetAdd(set, ts) == IF ts \in Range(set) THEN set ELSE Append(set, ts)

\* the loops of lines 924-950: from i in steps of delta while i < bound, or
\* i <= bound; `skip` holds the timestamps not to add
RECURSIVE AddWhile(_, _, _, _, _, _)
AddWhile(set, i, bound, inclusive, delta, skip) ==
    IF TsLess(i, bound) \/ (inclusive /\ i # NaN /\ i = bound)
    THEN AddWhile(IF i \in skip THEN set ELSE SetAdd(set, i),
                  i + delta, bound, inclusive, delta, skip)
    ELSE set

\* lines 917-950
UnavailableTimestamps(baseDate, baseTime, availableTimes) ==
    LET delta == PanelDelta(availableTimes)
        availableTimestamps ==
            [k \in 1..Len(availableTimes) |-> PanelTimestamp(baseDate, availableTimes[k])]
        available == Range(availableTimestamps)
        minAvailableTimestamp == MathMin(availableTimestamps)
        maxAvailableTimestamp == MathMax(availableTimestamps)
        between == AddWhile(<<>>, TsAdd(minAvailableTimestamp, delta),
                            maxAvailableTimestamp, FALSE, delta, available)
        baseTimestamp == PanelTimestamp(baseDate, baseTime)
        outside ==
            IF TsLess(baseTimestamp, minAvailableTimestamp)
            THEN AddWhile(between, baseTimestamp, minAvailableTimestamp, FALSE, delta, {})
            ELSE IF TsLess(maxAvailableTimestamp, baseTimestamp)
            THEN AddWhile(between, TsAdd(maxAvailableTimestamp, delta), baseTimestamp,
                          TRUE, delta, {})
            ELSE between
    IN  AddWhile(outside, TsAdd(baseTimestamp, -2 * delta), TsAdd(baseTimestamp, 2 * delta),
                 TRUE, delta, available)

\* lines 877-965
SidePanel(st, timeSlots, base) ==
    IF timeSlots # NullText /\ Includes(timeSlots, "noavail")
    THEN [st EXCEPT !.list =
            Append(@, PointRecord("panel", base.date, base.time, NoOnlineAvailability))]
    ELSE LET availableTimes == parseDateAndTimes(timeSlots).times
             unavailable ==
                 IF Len(availableTimes) > 0
                 THEN UnavailableTimestamps(base.date, base.time, availableTimes)
                 ELSE <<>>
         IN  [st EXCEPT !.list =
                 @ \o [k \in 1..Len(availableTimes) |->
                          PointRecord("panel", base.date, availableTimes[k], "available")]
                   \o [k \in 1..Len(unavailable) |->
                          PointRecord("panel", timestampToDateAndTime(unavailable[k]).date,
                                      timestampToDateAndTime(unavailable[k]).time,
                                      "unavailable")]]

\* handleRestaurantPage, lines 813-1054, on a page without the modal of line 814
handleRestaurantPage(pn) ==
    LET st == StartOfInvocation([c \in Containers |-> FALSE])
        base == PanelBaseline(pn)
        pg == [dom |-> pn.dom, base |-> base]
        afterPanel == SidePanel(st, pn.timeSlots, base)
    IN  IF ~pn.found THEN st
        ELSE IF pn.popup = "none" THEN afterPanel
        ELSE PopupInterval(ForEach(DayContainer, afterPanel, Days, pg), pn.popup, base)

MaxPanelLen == 2

PanelTokens ==
    {TimeToken(6, 0, "PM"), TimeToken(6, 30, "PM"), TimeToken(7, 30, "PM"),
     TimeToken(7, 45, "PM"), Word}
PanelSlots == SeqsUpTo(PanelTokens, MaxPanelLen) \cup {NullText, <<NoAvailToken>>}
PanelInfos ==
    {NullText}
    \cup {<<PartyToken(2)>> \o d \o t :
            d \in {<<>>, <<DateToken("abbr", 17, 2025)>>, <<DateToken("abbr", 17, NoYear)>>},
            t \in {<<>>, <<Word, TimeToken(5, 0, "PM")>>, <<Word, TimeToken(6, 30, "PM")>>,
                   <<Word, TimeToken(7, 0, "PM")>>, <<Word, TimeToken(9, 0, "PM")>>}}
PanelDay == Element(TRUE, "", <<<<TimeToken(9, 30, "PM")>>>>, DateValue(2025, 17))
PanelPopups ==
    {[popup |-> "none", day |-> Hidden], [popup |-> "1", day |-> PanelDay],
     [popup |-> "2", day |-> PanelDay]}
Panels ==
    {[found |-> f, edit |-> e, info |-> i, timeSlots |-> ts, popup |-> pp.popup,
      dom |-> [c \in Containers |-> IF c = Days[1] THEN pp.day ELSE Hidden]] :
        f \in BOOLEAN, e \in BOOLEAN, i \in PanelInfos, ts \in PanelSlots, pp \in PanelPopups}

InitPanel ==
    /\ fName = "handleRestaurantPage"
    /\ fArg \in Panels
    /\ clockYear = 2025
    /\ fOut = <<>>
    /\ fPc = "ready"
    /\ tz = UTC /\ nDate = NullDate /\ nDelta = 0 /\ nOut = NullDate /\ nPc = "idle"
    /\ GridIdle
    /\ WindowIdle
    /\ PageIdle

\* the extractor is injected into the page, which has not changed
InvokePanel ==
    /\ fName = "handleRestaurantPage"
    /\ \E st \in {handleRestaurantPage(fArg)} :
          fOut' = [year |-> clockYear, threw |-> st.threw,
                   list |-> IF st.threw THEN <<>> ELSE st.list]
    /\ fPc' = "done"
    /\ UNCHANGED <<clockYear, fName, fArg, gridVars, windowVars, pageVars, dateVars>>

\* the host's clock passes midnight of December 31
YearTurns ==
    /\ fName = "handleRestaurantPage"
    /\ clockYear + 1 \in ClockYears
    /\ clockYear' = clockYear + 1
    /\ UNCHANGED <<fName, fArg, fOut, fPc, gridVars, windowVars, pageVars, dateVars>>

NextPanel == InvokePanel \/ YearTurns

SpecPanel == InitPanel /\ [][NextPanel]_vars

PanelReturned == fName = "handleRestaurantPage" /\ fPc = "done"

\* C25: two invocations on the same page snapshot with the same marks
\* return the same records, whatever else (the wall clock) has changed
C25_SameSnapshotSameResult ==
    [][(PanelReturned /\ fPc' = "done" /\ fArg' = fArg /\ fOut' # fOut)
          => (fOut'.threw = fOut.threw /\ fOut'.list = fOut.list)]_vars

\* the point records of the side panel with a given info
PanelRecords(info) ==
    SelectSeq(fOut.list,
              LAMBDA r : ~IsInterval(r) /\ r.restaurantName = "panel" /\ r.info = info)
RecordTs(r) == DateTimeToTimestamp(r.date, r.time)
TimestampsOf(recs) == {RecordTs(recs[k]) : k \in 1..Len(recs)}
Least(S) == CHOOSE x \in S : \A y \in S : x <= y
Greatest(S) == CHOOSE x \in S : \A y \in S : x >= y
PanelD ==
    IF \E k \in 1..Len(PanelRecords("available")) :
            PanelRecords("available")[k].time[2] \in {15, 45}
    THEN 15 ELSE 30
PanelB == DateTimeToTimestamp(PanelBaseline(fArg).date, PanelBaseline(fArg).time)

\* the side panel ran with a baseline that is a date and a time, and found
\* available times
PanelInferred ==
    /\ PanelReturned /\ fArg.found /\ ~fOut.threw /\ fOut.year = clockYear
    /\ PanelBaseline(fArg).date \notin {NullDate, RawDate}
    /\ PanelBaseline(fArg).time # Undefined
    /\ PanelRecords("available") # <<>>

\* from + k * d for k = 0, 1, ... up to `to`
GridFrom(from, to, d) == {from + k * d : k \in 0..(IF to < from THEN -1 ELSE (to - from) \div d)}

BetweenAvailable(A, d) ==
    {x \in GridFrom(Least(A), Greatest(A), d) : Least(A) < x /\ x < Greatest(A)} \ A
OutsideAvailable(A, B, d) ==
    IF B < Least(A) THEN {x \in GridFrom(B, Least(A), d) : x < Least(A)}
    ELSE IF B > Greatest(A) THEN GridFrom(Greatest(A), B, d) \ {Greatest(A)}
    ELSE {}
AroundBaseline(A, B, d) == {B + k * d : k \in -2..2} \ A

\* C26: the unavailable instants of the side panel are the grid points
\* strictly between the earliest and the latest available time that are not
\* available, the grid points from the baseline up to the earliest available
\* time or from the latest available time up to the baseline, and the five
\* grid points around the baseline that are not available; each is emitted
\* once and none is an available instant
C26_SidePanelUnavailable ==
    PanelInferred =>
        LET unavailable == PanelRecords("unavailable")
            A == TimestampsOf(PanelRecords("available"))
            B == PanelB
            d == PanelD
        IN  /\ TimestampsOf(unavailable)
                  = BetweenAvailable(A, d) \cup OutsideAvailable(A, B, d)
                        \cup AroundBaseline(A, B, d)
            /\ \A k, l \in 1..Len(unavailable) :
                  k # l => RecordTs(unavailable[k]) # RecordTs(unavailable[l])
            /\ \A k \in 1..Len(unavailable) : RecordTs(unavailable[k]) \notin A

\* baseline 5:00 PM, available 6:00 PM and 7:30 PM: 4:00 PM to 5:30 PM and
\* 6:30 PM, 7:00 PM are unavailable
C26_Witness ==
    /\ PanelInferred
    /\ PanelB < Least(TimestampsOf(PanelRecords("available")))
    /\ BetweenAvailable(TimestampsOf(PanelRecords("available")), PanelD) # {}
    /\ Len(PanelRecords("unavailable")) = 6

(***************************************************************************)
(* The parsers and getNextTime, each called once on an argument.           *)
(***************************************************************************)
MaxTextLen == 3
MaxHour == 24

ParseTokens ==
    {TimeToken(8, 15, "PM"), TimeToken(12, 0, "AM"), TimeToken(12, 30, "PM"),
     TimeToken(9, 5, "AM"),
     DateToken("full", 3, 2025), DateToken("full", 13, NoYear),
     DateToken("abbr", 4, 2030), DateToken("abbr", 24, NoYear),
     PartyToken(2), Word}
Texts == SeqsUpTo(ParseTokens, MaxTextLen)

ClockStrings ==
    {FormatTime(<<h, m, sec>>) : h \in 0..MaxHour, m \in {0, 15, 30, 45, 59}, sec \in {0, 7}}
Deltas == {15, 30, 90}

InitCalls ==
    /\ fName \in {"parsePartySize", "parseTimes", "parseDateAndTimes", "getNextTime"}
    /\ fArg \in (IF fName = "getNextTime"
                  THEN {[time |-> t, deltaMinutes |-> d] : t \in ClockStrings, d \in Deltas}
                  ELSE IF fName = "parseDateAndTimes" THEN Texts \cup {NullText} ELSE Texts)
    /\ clockYear \in (IF fName = "parseDateAndTimes" THEN ClockYears ELSE {2025})
    /\ fOut = <<>>
    /\ fPc = "ready"
    /\ tz = UTC /\ nDate = NullDate /\ nDelta = 0 /\ nOut = NullDate /\ nPc = "idle"
    /\ GridIdle
    /\ WindowIdle
    /\ PageIdle

Returns(name, out) ==
    /\ fPc = "ready" /\ fName = name
    /\ fOut' = out
    /\ fPc' = "done"
    /\ UNCHANGED <<clockYear, fName, fArg, gridVars, windowVars, pageVars, dateVars>>

CallParsePartySize == Returns("parsePartySize", parsePartySize(fArg))
CallParseTimes == Returns("parseTimes", parseTimes(fArg))
CallParseDateAndTimes == Returns("parseDateAndTimes", parseDateAndTimes(fArg))
CallGetNextTime ==
    Returns("getNextTime",
            IF fName = "getNextTime"
            THEN FormatTime(getNextTime(SplitTime(fArg.time), fArg.deltaMinutes))
            ELSE <<>>)

NextCalls ==
    \/ CallParsePartySize
    \/ CallParseTimes
    \/ CallParseDateAndTimes
    \/ CallGetNextTime

SpecCalls == InitCalls /\ [][NextCalls]_vars

Returned(name) == fName = name /\ fPc = "done"

\* C21: getNextTime returns hours HH + floor((mm + delta) / 60), minutes
\* (mm + delta) mod 60 and the seconds of its argument, each written with
\* at least two digits, and the hour is not reduced modulo 24
C21_NextTime ==
    Returned("getNextTime") =>
        LET HH == Number(fArg.time[1])
            mm == Number(fArg.time[2])
            ss == Number(fArg.time[3])
        IN  /\ Len(fOut) = 3
            /\ \A k \in 1..3 : Len(fOut[k]) >= 2
            /\ Number(fOut[1]) = HH + ((mm + fArg.deltaMinutes) \div 60)
            /\ Number(fOut[2]) = (mm + fArg.deltaMinutes) % 60
            /\ Number(fOut[3]) = ss

\* "23:45:00" plus 30 minutes is "24:15:00"
C21_Witness ==
    /\ Returned("getNextTime")
    /\ fArg = [time |-> <<<<2, 3>>, <<4, 5>>, <<0, 0>>>>, deltaMinutes |-> 30]
    /\ fOut = <<<<2, 4>>, <<1, 5>>, <<0, 0>>>>

\* the clock labels of a text, and the texts in which no label directly
\* follows a digit
TimeTokensOf(text) == SelectSeq(text, LAMBDA tok : tok.kind = "time")
LabelsStandAlone(text) ==
    \A i \in 2..Len(text) : text[i].kind = "time" => text[i - 1].kind # "date"
TwentyFourHour(tok) ==
    LET hours == IF tok.ap = "PM" /\ tok.h # 12 THEN tok.h + 12
                 ELSE IF tok.ap = "AM" /\ tok.h = 12 THEN 0
                 ELSE tok.h
    IN  <<hours, tok.m, 0>>

IsDate(tok, form, withYear) ==
    tok.kind = "date" /\ tok.form = form /\ (withYear => tok.year # NoYear)
Leftmost(text, form, withYear) ==
    CHOOSE i \in 1..Len(text) :
        /\ IsDate(text[i], form, withYear)
        /\ \A j \in 1..(i - 1) : ~IsDate(text[j], form, withYear)
Has(text, form, withYear) == \E i \in 1..Len(text) : IsDate(text[i], form, withYear)
HasDate(text) == \E i \in 1..Len(text) : text[i].kind = "date"
SelectedDate(text) ==
    IF Has(text, "full", TRUE) THEN Leftmost(text, "full", TRUE)
    ELSE IF Has(text, "full", FALSE) THEN Leftmost(text, "full", FALSE)
    ELSE IF Has(text, "abbr", TRUE) THEN Leftmost(text, "abbr", TRUE)
    ELSE Leftmost(text, "abbr", FALSE)
Without(text, i) == SubSeq(text, 1, i - 1) \o SubSeq(text, i + 1, Len(text))
TimesBefore(text, i) == Len(TimeTokensOf(SubSeq(text, 1, i - 1)))

\* C23: parseDateAndTimes takes the date from the first of the four
\* patterns, in their fixed order, that matches; the times are those of the
\* text without the matched date, so a label written directly after the
\* date is returned with its own hour
C23_FirstPatternThenTimes ==
    (Returned("parseDateAndTimes") /\ fArg # NullText /\ HasDate(fArg)) =>
        LET i == SelectedDate(fArg)
            year == IF fArg[i].year # NoYear THEN fArg[i].year ELSE clockYear
        IN  /\ fOut.date = DateValue(year, fArg[i].day)
            /\ fOut.times = parseTimes(Without(fArg, i))
            /\ (/\ i < Len(fArg) /\ fArg[i + 1].kind = "time"
                /\ (i > 1 => fArg[i - 1].kind # "date"))
                   => fOut.times[TimesBefore(fArg, i) + 1] = TwentyFourHour(fArg[i + 1])

\* "Aug 4, 2030" is passed over for "August 13", which "8:15 PM" follows
C23_Witness ==
    /\ Returned("parseDateAndTimes")
    /\ fArg = <<DateToken("abbr", 4, 2030), DateToken("full", 13, NoYear),
                TimeToken(8, 15, "PM")>>
    /\ clockYear = 2026
    /\ fOut = [date |-> DateValue(2026, 13), times |-> <<<<20, 15, 0>>>>]

\* C24: no parser fails: without a match parsePartySize returns null and
\* parseTimes the empty list, parseDateAndTimes returns a null date and no
\* times for an empty or null text, and a null date with the times of
\* parseTimes for a text without a date
C24_NoMatchNoFailure ==
    /\ (Returned("parsePartySize") /\ \A i \in 1..Len(fArg) : fArg[i].kind # "party")
           => fOut = NullSize
    /\ (Returned("parseTimes") /\ \A i \in 1..Len(fArg) : fArg[i].kind # "time")
           => fOut = <<>>
    /\ (Returned("parseDateAndTimes") /\ (fArg = NullText \/ fArg = <<>>))
           => fOut = [date |-> NullDate, times |-> <<>>]
    /\ (Returned("parseDateAndTimes") /\ fArg # NullText /\ ~HasDate(fArg))
           => fOut = [date |-> NullDate, times |-> parseTimes(fArg)]

C24_Witness ==
    /\ Returned("parseDateAndTimes")
    /\ fArg = <<Word, TimeToken(9, 5, "AM")>>
    /\ fOut = [date |-> NullDate, times |-> <<<<9, 5, 0>>>>]

(***************************************************************************)
(* The loops of parseTimesAndAvailabilities and of the tick loop of        *)
(* handleRestaurantPageWithFullAvailabilityPopup, one iteration per step.  *)
(* fOut holds the loop variables, fPc the loop the call is in.             *)
(***************************************************************************)
MaxLoopLen == 3
MaxLoopSlots == 2

\* the tick loop never looks at more of a tick with a three-digit hour than
\* its first two characters, so such hours are kept up to MaxTickHour only
MaxTickHour == 100
Saturated(time) == IF time[1] > MaxTickHour THEN <<MaxTickHour, time[2], time[3]>> ELSE time

LoopLabels ==
    {BlankLabel, <<Word>>, <<TimeToken(11, 30, "AM")>>, <<TimeToken(12, 15, "PM")>>,
     <<TimeToken(12, 30, "PM")>>}
\* the text of a slot: no label, a clock label, or "Dec 18" directly
\* followed by a label, which reads "Dec 187:30 PM"
LoopSlotTexts ==
    {<<Word>>, <<TimeToken(10, 30, "PM")>>, <<TimeToken(11, 15, "PM")>>}
        \cup {<<DateToken("abbr", 18, NoYear), TimeToken(7, m, "PM")>> : m \in {0, 30, 45}}
LoopSlots == [text : LoopSlotTexts, visibility : BOOLEAN]

InitLoops ==
    /\ fName \in {"parseTimesAndAvailabilities", "handleRestaurantPageWithFullAvailabilityPopup"}
    /\ fArg \in (IF fName = "parseTimesAndAvailabilities"
                  THEN [date : {NullDate, 0}, timesArray : SeqsUpTo(LoopLabels, MaxLoopLen)]
                  ELSE [slots : SeqsUpTo(LoopSlots, MaxLoopSlots)])
    /\ clockYear = 0
    /\ fOut = <<>>
    /\ fPc = "ready"
    /\ tz = UTC /\ nDate = NullDate /\ nDelta = 0 /\ nOut = NullDate /\ nPc = "idle"
    /\ GridIdle
    /\ WindowIdle
    /\ PageIdle

LoopFrame == UNCHANGED <<clockYear, fName, fArg, gridVars, windowVars, pageVars, dateVars>>

\* lines 175-199
GridEnter ==
    /\ fPc = "ready" /\ fName = "parseTimesAndAvailabilities"
    /\ IF Len(fArg.timesArray) = 0
          \/ \A k \in 1..Len(fArg.timesArray) : fArg.timesArray[k] = BlankLabel
       THEN fOut' = fOut /\ fPc' = "done"
       ELSE /\ fOut' = [timestamps |-> GridTimestamps(fArg.date, fArg.timesArray),
                        delta |-> GridDelta(fArg.timesArray),
                        i |-> 1, j |-> 1, current |-> NullTs, k |-> 0, pushed |-> 0]
            /\ fPc' = "outer"
    /\ LoopFrame

\* line 199: while (i < n), and line 200
OuterTest ==
    /\ fPc = "outer"
    /\ IF fOut.i <= Len(fOut.timestamps)
       THEN fOut' = [fOut EXCEPT !.j = fOut.i] /\ fPc' = "inner"
       ELSE fOut' = fOut /\ fPc' = "done"
    /\ LoopFrame

InnerRuns == fOut.j <= Len(fOut.timestamps) /\ fOut.timestamps[fOut.j] = NullTs

\* lines 201-203
InnerSkip ==
    /\ fPc = "inner" /\ InnerRuns
    /\ fOut' = [fOut EXCEPT !.j = @ + 1]
    /\ fPc' = "inner"
    /\ LoopFrame

\* lines 204-212; timestampToDateAndTime throws on NaN
PushKnown ==
    /\ fPc = "inner" /\ ~InnerRuns /\ fOut.i = fOut.j
    /\ IF fOut.timestamps[fOut.i] = NaN
       THEN fOut' = fOut /\ fPc' = "threw"
       ELSE fOut' = [fOut EXCEPT !.i = @ + 1, !.pushed = @ + 1] /\ fPc' = "outer"
    /\ LoopFrame

\* lines 213-218
EnterBetween ==
    /\ fPc = "inner" /\ ~InnerRuns /\ fOut.i # fOut.j
    /\ fOut.i > 1 /\ fOut.j <= Len(fOut.timestamps)
    /\ fOut' = [fOut EXCEPT !.current = TsAdd(fOut.timestamps[fOut.i - 1], fOut.delta)]
    /\ fPc' = "between"
    /\ LoopFrame

\* lines 219-228
BetweenStep ==
    /\ fPc = "between"
    /\ IF TsLess(fOut.current, fOut.timestamps[fOut.j])
       THEN /\ fOut' = [fOut EXCEPT !.current = @ + fOut.delta, !.pushed = @ + 1]
            /\ fPc' = "between"
       ELSE fOut' = [fOut EXCEPT !.i = fOut.j] /\ fPc' = "outer"
    /\ LoopFrame

\* lines 229-232; timestamps[j] is undefined when j = n, and undefined
\* minus a number is NaN
EnterLeading ==
    /\ fPc = "inner" /\ ~InnerRuns /\ fOut.i # fOut.j
    /\ ~(fOut.i > 1 /\ fOut.j <= Len(fOut.timestamps))
    /\ fOut.i = 1
    /\ fOut' = [fOut EXCEPT
                  !.current = IF fOut.j <= Len(fOut.timestamps)
                              THEN fOut.timestamps[fOut.j] ELSE NaN,
                  !.k = fOut.j - 1]
    /\ fPc' = "leading"
    /\ LoopFrame

\* lines 232-242
LeadingStep ==
    /\ fPc = "leading"
    /\ IF fOut.k >= fOut.i
       THEN IF TsAdd(fOut.current, -fOut.delta) = NaN
            THEN fOut' = fOut /\ fPc' = "threw"
            ELSE /\ fOut' = [fOut EXCEPT !.current = TsAdd(@, -fOut.delta),
                                         !.k = @ - 1, !.pushed = @ + 1]
                 /\ fPc' = "leading"
       ELSE fOut' = [fOut EXCEPT !.i = fOut.j] /\ fPc' = "outer"
    /\ LoopFrame

\* lines 243-245
EnterTrailing ==
    /\ fPc = "inner" /\ ~InnerRuns /\ fOut.i # fOut.j
    /\ ~(fOut.i > 1 /\ fOut.j <= Len(fOut.timestamps))
    /\ fOut.i # 1
    /\ fOut' = [fOut EXCEPT !.current = fOut.timestamps[fOut.i - 1], !.k = fOut.i]
    /\ fPc' = "trailing"
    /\ LoopFrame

\* lines 246-255
TrailingStep ==
    /\ fPc = "trailing"
    /\ IF fOut.k <= Len(fOut.timestamps)
       THEN IF TsAdd(fOut.current, fOut.delta) = NaN
            THEN fOut' = fOut /\ fPc' = "threw"
            ELSE /\ fOut' = [fOut EXCEPT !.current = TsAdd(@, fOut.delta),
                                         !.k = @ + 1, !.pushed = @ + 1]
                 /\ fPc' = "trailing"
       ELSE fOut' = [fOut EXCEPT !.i = fOut.j] /\ fPc' = "outer"
    /\ LoopFrame

\* lines 743-799, the page showing time slots
TickEnter ==
    /\ fPc = "ready" /\ fName = "handleRestaurantPageWithFullAvailabilityPopup"
    /\ LET unsorted == TimesAndVisibilities(fArg.slots)
       IN  IF Len(unsorted) = 0 THEN fOut' = fOut /\ fPc' = "done"
           ELSE LET tv == SortByTime(unsorted)
                    w == ObservationWindow(tv)
                IN  /\ fOut' = [t |-> w.start, end |-> w.end, delta |-> WindowDelta(tv)]
                    /\ fPc' = "tick"
    /\ LoopFrame

\* lines 799-809: one iteration, or the exit
TickStep ==
    /\ fPc = "tick"
    /\ IF StrLessEq(fOut.t, fOut.end)
       THEN /\ fOut' = [fOut EXCEPT !.t = Saturated(getNextTime(@, fOut.delta))]
            /\ fPc' = "tick"
       ELSE fOut' = fOut /\ fPc' = "done"
    /\ LoopFrame

NextLoops ==
    \/ GridEnter
    \/ OuterTest
    \/ InnerSkip
    \/ PushKnown
    \/ EnterBetween
    \/ BetweenStep
    \/ EnterLeading
    \/ LeadingStep
    \/ EnterTrailing
    \/ TrailingStep
    \/ TickEnter
    \/ TickStep

\* the script runs to its end: a step that can be taken is taken
SpecLoops == InitLoops /\ [][NextLoops]_vars /\ WF_vars(NextLoops)

Finished == fPc \in {"done", "threw"}

\* C30: every invocation terminates: the scan and the fill loops of the
\* grid engine and the tick loop of the visibility window come to an end
C30_Terminates == <>Finished

\* the loops of the grid engine come to an end
GridTerminates == (fName = "parseTimesAndAvailabilities") => <>Finished

\* the tick loop comes to an end when every label is a clock time
ClockLabels ==
    \A k \in 1..Len(fArg.slots) :
        /\ LabelsStandAlone(fArg.slots[k].text)
        /\ \A l \in 1..Len(fArg.slots[k].text) :
              fArg.slots[k].text[l].kind = "time" => fArg.slots[k].text[l].h \in 1..12
TicksTerminate ==
    (fName = "handleRestaurantPageWithFullAvailabilityPopup" /\ ClockLabels) => <>Finished

\* the steps push what the engine returns
StepsAgree ==
    (fName = "parseTimesAndAvailabilities" /\ fPc = "done" /\ fOut # <<>>) =>
        LET whole == parseTimesAndAvailabilities(fArg.date, fArg.timesArray)
        IN  ~whole.threw /\ Len(whole.out) = fOut.pushed

====
